---- MODULE Spec2Model ----
(***************************************************************************)
(* The bounding-box editor of OpenLabel's frontend:                        *)
(* ObjectDetectionAnnotator.tsx (canvas frame, hit-testing, the            *)
(* draw / move / resize pointer handlers) together with the host           *)
(* callbacks it is wired to in the Annotator page (handleBoxChange,        *)
(* setSelectedBoxId, handleLabelChange, handleDelete).                     *)
(*                                                                         *)
(* JavaScript numbers are modelled as exact rationals <<n, d>> (d > 0,     *)
(* lowest terms), so the arithmetic of the handlers is computed as         *)
(* written, without floating-point rounding.                               *)
(***************************************************************************)
EXTENDS Integers, Sequences, FiniteSets, TLC

(***************************************************************************)
(* Rational arithmetic                                                     *)
(***************************************************************************)
RECURSIVE GCD(_, _)
GCD(a, b) == IF b = 0 THEN a ELSE GCD(b, a % b)

IAbs(i) == IF i < 0 THEN -i ELSE i

\* the rational n/d in lowest terms with a positive denominator
Q(n, d) ==
  IF d = 1 THEN <<n, 1>>
  ELSE LET s == IF d < 0 THEN -1 ELSE 1
           g == GCD(IAbs(n), IAbs(d))
       IN  <<(s * n) \div g, (s * d) \div g>>

R(i) == <<i, 1>>

RAdd(a, b) == Q(a[1] * b[2] + b[1] * a[2], a[2] * b[2])
RSub(a, b) == Q(a[1] * b[2] - b[1] * a[2], a[2] * b[2])
RMul(a, b) == Q(a[1] * b[1], a[2] * b[2])
RDiv(a, b) == Q(a[1] * b[2], a[2] * b[1])
RLt(a, b)  == a[1] * b[2] < b[1] * a[2]
RLe(a, b)  == a[1] * b[2] <= b[1] * a[2]
RMin(a, b) == IF RLe(a, b) THEN a ELSE b
RMax(a, b) == IF RLe(a, b) THEN b ELSE a
RAbs(a)    == <<IAbs(a[1]), a[2]>>

(***************************************************************************)
(* Program constants and the environment of the canvas                     *)
(***************************************************************************)
HANDLE_SIZE == 8
CANVAS_HEIGHT == 600

\* bound of the model: the number of events (pointer, label, delete) of a run
MaxEvents == 5

\* bound of the model of the Annotator page: the number of events of the user
\* (pointer, label, delete, save, file change) of a run
MaxHostEvents == 4

\* bound of the model of the editor under canvas resizes and image loads: the
\* number of pointer events of a run
MaxFrameEvents == 4

Null == 0
NullPt == <<>>
NullCorner == -1

\* layout.labels of the project
Labels == <<"cat", "dog">>

\* the page: clientWidth of the canvas container and the decoded image
ContainerWidths == {800}
Images == {[width |-> 400, height |-> 200]}

\* getBoundingClientRect() of the canvas element; the element is laid out at
\* the size of its bitmap (style width 100% of the container, height px)
Rect(w, h) == [left |-> 16, top |-> 16, width |-> w, height |-> h]

\* positions of the pointer over the canvas, in canvas pixels: two points
\* inside the drawn image, a point between them, one in the upper and one in
\* the lower letterbox margin
CanvasPoints ==
  { <<100, 150>>, <<300, 250>>, <<200, 200>>, <<300, 50>>, <<100, 550>> }

\* the mouse events the browser can deliver: client coordinates
MouseEvents ==
  { [clientX |-> p[1] + Rect(0, 0).left, clientY |-> p[2] + Rect(0, 0).top] :
      p \in CanvasPoints }

\* the files of the project, in list order
Files == <<"f1", "f2">>

\* image prop and frame ref before the first image has been decoded (null)
NoImage == <<>>
NoFrame == <<>>

VARIABLES
  width, height, image,      \* props: canvas size and decoded image
  annotations,               \* host: the boxes of every file, in insertion order
  currentIndex,              \* host: index of the file shown (1-based here)
  selectedId,                \* prop: selectedBoxId of the host, Null when none
  activeLabel,               \* prop: active label of the host
  imageDrawData,             \* ref: the frame written by drawCanvas
  mode,                      \* state: "none" | "drawing" | "moving" | "resizing"
  startPoint,                \* ref: draw origin, NullPt when none
  dragOffset,                \* state: drag anchor, NullPt when none
  resizingCorner,            \* state: 0..3, NullCorner when none
  nextId,                    \* the ids uuidv4 has handed out so far
  grab,                      \* history: pointer and selected box at the last pointer-down
  last,                      \* history: the last event handled and what it called back
  events,                    \* number of events handled
  error,                     \* a handler has thrown (TypeError on the null frame)
  hasUnsavedChanges,         \* host: state hasUnsavedChanges
  isSaving,                  \* host: state isSaving
  fileData,                  \* host: the file whose data is loaded, NoFileData when null
  server,                    \* the annotations the server stores for every file
  save,                      \* the call of handleSaveAnnotations in flight
  save2,                     \* a second call, invoked while `save` is in flight
  lastSent,                  \* history: per file, the boxes of the save whose requests ran last
  fetching,                  \* files whose fetchFileData is awaiting the response
  decoding,                  \* files whose image is being decoded (img.onload pending)
  roundTrip,                 \* the rectangle taken through the conversions (SpecRoundTrip)
  resize                     \* the box taken through a resize sample (SpecResize)

\* state of the host page that the editor's handlers never write
HostVars ==
  <<isSaving, fileData, server, save, save2, lastSent, fetching, decoding>>

\* state of the specifications of the pure functions
PureVars == <<roundTrip, resize>>

vars == <<width, height, image, annotations, currentIndex, selectedId,
          activeLabel, imageDrawData, mode, startPoint, dragOffset,
          resizingCorner, nextId, grab, last, events, error,
          hasUnsavedChanges, HostVars, PureVars>>

(***************************************************************************)
(* Coordinate mapper (drawCanvas)                                          *)
(***************************************************************************)
\* a variant that scales the image to cover the canvas
ComputeFrameCover(w, h, img) ==
  LET scale == RMax(RDiv(R(w), R(img.width)), RDiv(R(h), R(img.height)))
      imgW == RMul(R(img.width), scale)
      imgH == RMul(R(img.height), scale)
      offsetX == RDiv(RSub(R(w), imgW), R(2))
      offsetY == RDiv(RSub(R(h), imgH), R(2))
  IN  [x |-> offsetX, y |-> offsetY, width |-> imgW, height |-> imgH,
       scale |-> scale]

ComputeFrame(w, h, img) ==
  LET scale == RMin(RDiv(R(w), R(img.width)), RDiv(R(h), R(img.height)))
      imgW == RMul(R(img.width), scale)
      imgH == RMul(R(img.height), scale)
      offsetX == RDiv(RSub(R(w), imgW), R(2))
      offsetY == RDiv(RSub(R(h), imgH), R(2))
  IN  [x |-> offsetX, y |-> offsetY, width |-> imgW, height |-> imgH,
       scale |-> scale]

\* normalized -> canvas pixels, as in drawCanvas and the hit tests
AbsX(box, f) == RAdd(f.x, RMul(box.x, f.width))
AbsY(box, f) == RAdd(f.y, RMul(box.y, f.height))
AbsW(box, f) == RMul(box.width, f.width)
AbsH(box, f) == RMul(box.height, f.height)

\* a variant that leaves out the frame offset
ToCanvasNoOffset(box, f) ==
  [x |-> RMul(box.x, f.width), y |-> RMul(box.y, f.height),
   width |-> AbsW(box, f), height |-> AbsH(box, f)]

\* the pixel rectangle of a box, and the box of a pixel rectangle
ToCanvas(box, f) ==
  [x |-> AbsX(box, f), y |-> AbsY(box, f),
   width |-> AbsW(box, f), height |-> AbsH(box, f)]

ToNormalized(r, f) ==
  [x |-> RDiv(RSub(r.x, f.x), f.width),
   y |-> RDiv(RSub(r.y, f.y), f.height),
   width |-> RDiv(r.width, f.width),
   height |-> RDiv(r.height, f.height)]

GetCanvasCoords(e, w, h) ==
  LET rect == Rect(w, h)
      scaleX == RDiv(R(w), R(rect.width))
      scaleY == RDiv(R(h), R(rect.height))
  IN  [x |-> RMul(R(e.clientX - rect.left), scaleX),
       y |-> RMul(R(e.clientY - rect.top), scaleY)]

\* the `annotations` prop of the editor
CurrentBoxes == annotations[currentIndex]

(***************************************************************************)
(* Renderer (drawCanvas): the paint operations of one render, in the order *)
(* they are issued on the 2d context                                       *)
(***************************************************************************)
RECURSIVE Flatten(_)
Flatten(ss) == IF ss = <<>> THEN <<>> ELSE Head(ss) \o Flatten(Tail(ss))

\* drawHandle for the four corners, in the order of lines 96-99
DrawHandles(box) == [c \in 1..4 |-> <<"handle", box.id, c - 1>>]

\* the body of the loop over the annotations: stroke, label chip (filled
\* rectangle and text), then the four handles of that box
DrawBox(box, sel) ==
  << <<"strokeRect", box.id, IF box.id = sel THEN "cyan" ELSE "red">>,
     <<"fillRect", box.id>>,
     <<"fillText", box.id, box.label>> >> \o DrawHandles(box)

\* the operations of drawCanvas; none when it returns early without an image
DrawCanvasOps(img, boxes, sel) ==
  IF img = NoImage THEN <<>>
  ELSE << <<"clearRect">>, <<"drawImage">> >>
         \o Flatten([i \in 1..Len(boxes) |-> DrawBox(boxes[i], sel)])

\* what the last render painted: the render effect runs drawCanvas after
\* every change of image, annotations, width, height or selectedId
Painted == DrawCanvasOps(image, CurrentBoxes, selectedId)

(***************************************************************************)
(* Hit tester                                                              *)
(***************************************************************************)
MinOf(S) == CHOOSE i \in S : \A j \in S : i <= j
MaxOf(S) == CHOOSE i \in S : \A j \in S : i >= j

InBody(x, y, box, f) ==
  LET absX == AbsX(box, f)
      absY == AbsY(box, f)
      absW == AbsW(box, f)
      absH == AbsH(box, f)
  IN  /\ RLe(absX, x) /\ RLe(x, RAdd(absX, absW))
      /\ RLe(absY, y) /\ RLe(y, RAdd(absY, absH))

\* a variant that compares the pointer with the stored (normalized) box
FindClickedBoxUnscaled(x, y, boxes, f) ==
  LET in(b) == /\ RLe(b.x, x) /\ RLe(x, RAdd(b.x, b.width))
               /\ RLe(b.y, y) /\ RLe(y, RAdd(b.y, b.height))
      hits == { i \in 1..Len(boxes) : in(boxes[i]) }
  IN  IF hits = {} THEN 0 ELSE MinOf(hits)

\* index of the box returned (0 when null): the first box of the list
\* whose rectangle holds the point
FindClickedBox(x, y, boxes, f) ==
  IF f = NoFrame THEN 0
  ELSE LET hits == { i \in 1..Len(boxes) : InBody(x, y, boxes[i], f) }
       IN  IF hits = {} THEN 0 ELSE MinOf(hits)

\* corners[i] of findClickedHandle, for i in 0..3
Corner(box, f, i) ==
  LET absX == AbsX(box, f)
      absY == AbsY(box, f)
      absW == AbsW(box, f)
      absH == AbsH(box, f)
  IN  CASE i = 0 -> [x |-> absX, y |-> absY]
        [] i = 1 -> [x |-> RAdd(absX, absW), y |-> absY]
        [] i = 2 -> [x |-> absX, y |-> RAdd(absY, absH)]
        [] i = 3 -> [x |-> RAdd(absX, absW), y |-> RAdd(absY, absH)]

\* Math.hypot(x - corner.x, y - corner.y) < HANDLE_SIZE * 1.5
NearCorner(x, y, corner) ==
  LET dx == RSub(x, corner.x)
      dy == RSub(y, corner.y)
      r  == Q(HANDLE_SIZE * 3, 2)
  IN  RLt(RAdd(RMul(dx, dx), RMul(dy, dy)), RMul(r, r))

\* a variant that searches the list from the top of the z-order
FindClickedHandleTopmost(x, y, boxes, f) ==
  LET hit(i) == { c \in 0..3 : NearCorner(x, y, Corner(boxes[i], f, c)) }
      hits == { i \in 1..Len(boxes) : hit(i) # {} }
  IN  IF hits = {} THEN [box |-> 0, corner |-> NullCorner]
      ELSE [box |-> MaxOf(hits), corner |-> MinOf(hit(MaxOf(hits)))]

\* {box, corner} of the first box of the list, and its first corner, within
\* the hit radius; box 0 when null
FindClickedHandle(x, y, boxes, f) ==
  IF f = NoFrame THEN [box |-> 0, corner |-> NullCorner]
  ELSE LET hit(i) == { c \in 0..3 : NearCorner(x, y, Corner(boxes[i], f, c)) }
           hits == { i \in 1..Len(boxes) : hit(i) # {} }
       IN  IF hits = {} THEN [box |-> 0, corner |-> NullCorner]
           ELSE [box |-> MinOf(hits), corner |-> MinOf(hit(MinOf(hits)))]

(***************************************************************************)
(* Geometry of the gestures                                                *)
(***************************************************************************)
\* a variant that does not take the frame offset out again
MovedBoxNoOffset(box, dx, dy, f) ==
  [box EXCEPT
     !.x = RDiv(RAdd(RAdd(f.x, RMul(box.x, f.width)), dx), f.width),
     !.y = RDiv(RAdd(RAdd(f.y, RMul(box.y, f.height)), dy), f.height)]

\* a variant that moves the right and bottom edges only
MovedBoxStretching(box, dx, dy, f) ==
  [box EXCEPT
     !.width = RDiv(RAdd(RMul(box.width, f.width), dx), f.width),
     !.height = RDiv(RAdd(RMul(box.height, f.height), dy), f.height)]

\* the box of a move sample (handleMouseMove, mode "moving")
MovedBox(box, dx, dy, f) ==
  [box EXCEPT
     !.x = RDiv(RSub(RAdd(RAdd(f.x, RMul(box.x, f.width)), dx), f.x), f.width),
     !.y = RDiv(RSub(RAdd(RAdd(f.y, RMul(box.y, f.height)), dy), f.y), f.height)]

\* a variant that keeps the corners in the order they were dragged to
ResizedBoxSigned(box, corner, pos, f) ==
  LET absX == AbsX(box, f)
      absY == AbsY(box, f)
      absW == AbsW(box, f)
      absH == AbsH(box, f)
      x0 == IF corner \in {0, 2} THEN pos.x ELSE absX
      y0 == IF corner \in {0, 1} THEN pos.y ELSE absY
      x1 == IF corner \in {1, 3} THEN pos.x ELSE RAdd(absX, absW)
      y1 == IF corner \in {2, 3} THEN pos.y ELSE RAdd(absY, absH)
      n == ToNormalized([x |-> x0, y |-> y0, width |-> RSub(x1, x0),
                         height |-> RSub(y1, y0)], f)
  IN  [box EXCEPT !.x = n.x, !.y = n.y, !.width = n.width,
                  !.height = n.height]

\* the box of a resize sample (handleMouseMove, mode "resizing")
ResizedBox(box, corner, pos, f) ==
  LET absX == AbsX(box, f)
      absY == AbsY(box, f)
      absW == AbsW(box, f)
      absH == AbsH(box, f)
      x0 == IF corner \in {0, 2} THEN pos.x ELSE absX
      y0 == IF corner \in {0, 1} THEN pos.y ELSE absY
      x1 == IF corner \in {1, 3} THEN pos.x ELSE RAdd(absX, absW)
      y1 == IF corner \in {2, 3} THEN pos.y ELSE RAdd(absY, absH)
      newX == RMin(x0, x1)
      newY == RMin(y0, y1)
      newW == RAbs(RSub(x1, x0))
      newH == RAbs(RSub(y1, y0))
      n == ToNormalized([x |-> newX, y |-> newY, width |-> newW,
                         height |-> newH], f)
  IN  [box EXCEPT !.x = n.x, !.y = n.y, !.width = n.width,
                  !.height = n.height]

\* a variant without the lower clamp
ClampRelUpperOnly(v, offset, size) == RMin(RSub(v, offset), size)

\* Math.min(Math.max(v - offset, 0), size)
ClampRel(v, offset, size) == RMin(RMax(RSub(v, offset), R(0)), size)

\* the box a draw gesture commits (handleMouseUp, mode "drawing")
NewBox(start, end, f, id, label) ==
  LET relStartX == ClampRel(start.x, f.x, f.width)
      relStartY == ClampRel(start.y, f.y, f.height)
      relEndX == ClampRel(end.x, f.x, f.width)
      relEndY == ClampRel(end.y, f.y, f.height)
  IN  [id |-> id,
       x |-> RDiv(RMin(relStartX, relEndX), f.width),
       y |-> RDiv(RMin(relStartY, relEndY), f.height),
       width |-> RDiv(RAbs(RSub(relEndX, relStartX)), f.width),
       height |-> RDiv(RAbs(RSub(relEndY, relStartY)), f.height),
       label |-> label]

\* the point (x, y) of whole canvas pixels
Pt(x, y) == [x |-> R(x), y |-> R(y)]

MapBoxes(boxes, F(_)) == [i \in 1..Len(boxes) |-> F(boxes[i])]

(***************************************************************************)
(* Host callbacks (Annotator page)                                         *)
(***************************************************************************)
\* onChange: the boxes of the current file are replaced by `updated` and the
\* page is marked as having unsaved changes
HandleBoxChange(updated) ==
  /\ annotations' = [annotations EXCEPT ![currentIndex] = updated]
  /\ hasUnsavedChanges' = TRUE

NoBox == [id |-> Null, x |-> R(0), y |-> R(0), width |-> R(0),
          height |-> R(0), label |-> ""]

\* history record of an event: the handler, the mode it ran in, the pointer
\* position it used (NullPt when it used none), whether it called onChange
\* and whether it called onSelect
Event(op, m, pos, changed, selected) ==
  [op |-> op, mode |-> m, pos |-> pos, changed |-> changed,
   selected |-> selected]

\* history record of a pointer-down: its position, the box it selected (NoBox
\* on empty space), the number of move samples applied to it since and the
\* file that was shown
Grab(pos, box) ==
  [pos |-> pos, box |-> box, samples |-> 0, file |-> currentIndex]

NoRect == [x |-> R(0), y |-> R(0), width |-> R(0), height |-> R(0)]
NoRoundTrip ==
  [stage |-> "off", rect |-> NoRect, norm |-> NoRect, canvas |-> NoRect,
   back |-> NoRect]
NoResize ==
  [stage |-> "off", box |-> NoBox, corner |-> NullCorner, pos |-> NullPt,
   out |-> NoBox]

\* fileData of the host: the file it belongs to (0 when null) and the
\* annotations the server returned for it
NoFileData == [file |-> Null, annotations |-> <<>>]
FileData(i, anns) == [file |-> i, annotations |-> anns]

\* no call of handleSaveAnnotations is in flight
NoSave ==
  [stage |-> "idle", file |-> Null, existing |-> <<>>, boxes |-> <<>>,
   sent |-> <<>>, next |-> Null]

\* the host page at rest: the data of file 1 is loaded, the server stores no
\* annotation, nothing is in flight
HostAtRest ==
  /\ hasUnsavedChanges = FALSE
  /\ isSaving = FALSE
  /\ fileData = FileData(1, <<>>)
  /\ server = [i \in 1..Len(Files) |-> <<>>]
  /\ save = NoSave
  /\ save2 = NoSave
  /\ lastSent = server
  /\ fetching = {}
  /\ decoding = {}

\* the editor as constructed: useState / useRef initial values
EditorMounted ==
  /\ mode = "none"
  /\ startPoint = NullPt
  /\ dragOffset = NullPt
  /\ resizingCorner = NullCorner
  /\ grab = Grab(NullPt, NoBox)
  /\ last = Event("init", "none", NullPt, FALSE, FALSE)
  /\ events = 0
  /\ error = FALSE

(***************************************************************************)
(* Initial state: the editor is mounted with a decoded image, its first    *)
(* render effect has run drawCanvas, and the file has no boxes yet         *)
(***************************************************************************)
Init ==
  /\ width \in ContainerWidths
  /\ height = CANVAS_HEIGHT
  /\ image \in Images
  /\ annotations = [i \in 1..Len(Files) |-> <<>>]
  /\ currentIndex = 1
  /\ selectedId = Null
  /\ activeLabel = Labels[1]
  /\ imageDrawData = ComputeFrame(width, height, image)
  /\ nextId = 0
  /\ EditorMounted
  /\ HostAtRest
  /\ roundTrip = NoRoundTrip
  /\ resize = NoResize

\* a variant of the render effect that keeps the frame it computed first
DrawCanvasOnce ==
  imageDrawData' = IF image' = NoImage \/ imageDrawData # NoFrame
                   THEN imageDrawData
                   ELSE ComputeFrame(width', height', image')

\* the render effect: drawCanvas returns early without an image, otherwise it
\* recomputes the frame from the props
DrawCanvas ==
  imageDrawData' = IF image' = NoImage THEN imageDrawData
                   ELSE ComputeFrame(width', height', image')

Tick == events < MaxEvents /\ events' = events + 1

(***************************************************************************)
(* Pointer handlers                                                        *)
(***************************************************************************)
\* a variant of the end of handleMouseUp that keeps the drag anchor
ClearDrawStateKeepsAnchor ==
  /\ mode' = "none"
  /\ startPoint' = NullPt
  /\ resizingCorner' = NullCorner
  /\ UNCHANGED dragOffset

\* the end of handleMouseUp
ClearDrawState ==
  /\ mode' = "none"
  /\ startPoint' = NullPt
  /\ dragOffset' = NullPt
  /\ resizingCorner' = NullCorner

\* a variant in which every handler destructures the frame at its start
DestructuresNullFrameUnguarded(reads) == imageDrawData = NoFrame

\* `const {...} = imageDrawData.current` is executed (inside the branch that
\* `reads` stands for) while the ref is still null: a TypeError is thrown
DestructuresNullFrame(reads) == reads /\ imageDrawData = NoFrame

HandleMouseDown(e) ==
  LET pos == GetCanvasCoords(e, width, height)
      handle == FindClickedHandle(pos.x, pos.y, CurrentBoxes, imageDrawData)
      clickedBox == FindClickedBox(pos.x, pos.y, CurrentBoxes, imageDrawData)
  IN  /\ Tick
      /\ IF handle.box # 0
         THEN /\ selectedId' = CurrentBoxes[handle.box].id
              /\ resizingCorner' = handle.corner
              /\ mode' = "resizing"
              /\ grab' = Grab(pos, CurrentBoxes[handle.box])
              /\ UNCHANGED <<startPoint, dragOffset>>
         ELSE IF clickedBox # 0
         THEN /\ selectedId' = CurrentBoxes[clickedBox].id
              /\ dragOffset' = pos
              /\ mode' = "moving"
              /\ grab' = Grab(pos, CurrentBoxes[clickedBox])
              /\ UNCHANGED <<startPoint, resizingCorner>>
         ELSE /\ startPoint' = pos
              /\ mode' = "drawing"
              /\ selectedId' = Null
              /\ grab' = Grab(pos, NoBox)
              /\ UNCHANGED <<dragOffset, resizingCorner>>
      /\ last' = Event("down", mode, pos, FALSE, TRUE)
      /\ UNCHANGED <<PureVars, HostVars, width, height, image, annotations,
                     currentIndex, activeLabel, nextId, error,
                     hasUnsavedChanges>>
      /\ DrawCanvas

\* a variant of handleMouseMove whose samples in Moving drop the selection
HandleMouseMoveDeselecting(e) ==
  LET pos == GetCanvasCoords(e, width, height)
      f == imageDrawData
      moving == mode = "moving" /\ selectedId # Null /\ dragOffset # NullPt
      resizing == mode = "resizing" /\ selectedId # Null
                    /\ resizingCorner # NullCorner
      dx == RSub(pos.x, dragOffset.x)
      dy == RSub(pos.y, dragOffset.y)
      Move(box) == IF box.id # selectedId THEN box
                   ELSE MovedBox(box, dx, dy, f)
      Resize(box) == IF box.id # selectedId THEN box
                     ELSE ResizedBox(box, resizingCorner, pos, f)
  IN  /\ Tick
      /\ IF moving
         THEN /\ HandleBoxChange(MapBoxes(CurrentBoxes, Move))
              /\ dragOffset' = pos
              /\ selectedId' = Null
              /\ last' = Event("move", mode, pos, TRUE, TRUE)
              /\ grab' = [grab EXCEPT !.samples = @ + 1]
         ELSE IF resizing
         THEN /\ HandleBoxChange(MapBoxes(CurrentBoxes, Resize))
              /\ last' = Event("move", mode, pos, TRUE, FALSE)
              /\ grab' = [grab EXCEPT !.samples = @ + 1]
              /\ UNCHANGED <<dragOffset, selectedId>>
         ELSE /\ last' = Event("move", mode, NullPt, FALSE, FALSE)
              /\ UNCHANGED <<annotations, hasUnsavedChanges, dragOffset,
                             grab, selectedId>>
      /\ UNCHANGED <<PureVars, HostVars, width, height, image, currentIndex,
                     activeLabel, mode, startPoint, resizingCorner, nextId,
                     error>>
      /\ DrawCanvas

HandleMouseMove(e) ==
  LET pos == GetCanvasCoords(e, width, height)
      f == imageDrawData
      moving == mode = "moving" /\ selectedId # Null /\ dragOffset # NullPt
      resizing == mode = "resizing" /\ selectedId # Null
                    /\ resizingCorner # NullCorner
      dx == RSub(pos.x, dragOffset.x)
      dy == RSub(pos.y, dragOffset.y)
      Move(box) == IF box.id # selectedId THEN box
                   ELSE MovedBox(box, dx, dy, f)
      Resize(box) == IF box.id # selectedId THEN box
                     ELSE ResizedBox(box, resizingCorner, pos, f)
  IN  /\ Tick
      /\ IF DestructuresNullFrame(moving \/ resizing)
         THEN /\ error' = TRUE
              /\ last' = Event("move", mode, NullPt, FALSE, FALSE)
              /\ UNCHANGED <<annotations, hasUnsavedChanges, dragOffset, grab>>
         ELSE IF moving
         THEN /\ HandleBoxChange(MapBoxes(CurrentBoxes, Move))
              /\ dragOffset' = pos
              /\ last' = Event("move", mode, pos, TRUE, FALSE)
              /\ grab' = [grab EXCEPT !.samples = @ + 1]
              /\ UNCHANGED error
         ELSE IF resizing
         THEN /\ HandleBoxChange(MapBoxes(CurrentBoxes, Resize))
              /\ last' = Event("move", mode, pos, TRUE, FALSE)
              /\ grab' = [grab EXCEPT !.samples = @ + 1]
              /\ UNCHANGED <<dragOffset, error>>
         ELSE /\ last' = Event("move", mode, NullPt, FALSE, FALSE)
              /\ UNCHANGED <<annotations, hasUnsavedChanges, dragOffset,
                             grab, error>>
      /\ UNCHANGED <<PureVars, HostVars, width, height, image, currentIndex,
                     selectedId, activeLabel, mode, startPoint,
                     resizingCorner, nextId>>
      /\ DrawCanvas

\* a variant of the id source that hands out the id it handed out last
Uuidv4Again == nextId

\* uuidv4(): an id that no box has been given before
Uuidv4 == nextId + 1

HandleMouseUp(e) ==
  LET drawing == mode = "drawing" /\ startPoint # NullPt
      end == GetCanvasCoords(e, width, height)
      newBox == NewBox(startPoint, end, imageDrawData, Uuidv4, activeLabel)
  IN  /\ Tick
      /\ IF DestructuresNullFrame(drawing)
         THEN \* thrown before the resets at the end of the handler
              /\ error' = TRUE
              /\ last' = Event("up", mode, NullPt, FALSE, FALSE)
              /\ UNCHANGED <<annotations, hasUnsavedChanges, nextId, mode,
                             startPoint, dragOffset, resizingCorner>>
         ELSE /\ IF drawing
                 THEN /\ HandleBoxChange(Append(CurrentBoxes, newBox))
                      /\ nextId' = nextId + 1
                 ELSE UNCHANGED <<annotations, hasUnsavedChanges, nextId>>
              /\ ClearDrawState
              /\ last' = Event("up", mode, IF drawing THEN end ELSE NullPt,
                               drawing, FALSE)
              /\ UNCHANGED error
      /\ UNCHANGED <<PureVars, HostVars, width, height, image, currentIndex,
                     selectedId, activeLabel, grab>>
      /\ DrawCanvas

(***************************************************************************)
(* Host actions on the selected box                                        *)
(***************************************************************************)
\* a variant that gives the label to every box of the list
RelabelledAll(boxes, id, label) ==
  [i \in 1..Len(boxes) |-> [boxes[i] EXCEPT !.label = label]]

\* updated[currentIndex].map((box) =>
\*   box.id === selectedBoxId ? { ...box, label } : box)
Relabelled(boxes, id, label) ==
  [i \in 1..Len(boxes) |->
     IF boxes[i].id = id THEN [boxes[i] EXCEPT !.label = label]
     ELSE boxes[i]]

HandleLabelChange(label) ==
  /\ Tick
  /\ activeLabel' = label
  /\ IF fileData # NoFileData /\ selectedId # Null
     THEN /\ annotations' =
               [annotations EXCEPT
                  ![currentIndex] = Relabelled(@, selectedId, label)]
          /\ hasUnsavedChanges' = TRUE
     ELSE UNCHANGED <<annotations, hasUnsavedChanges>>
  /\ last' = Event("label", mode, NullPt, FALSE, FALSE)
  /\ UNCHANGED <<PureVars, HostVars, width, height, image, currentIndex,
                 selectedId, mode, startPoint, dragOffset, resizingCorner,
                 nextId, grab, error>>
  /\ DrawCanvas

\* a variant that removes the last box when no box has the id
RemoveBoxOrLast(boxes, id) ==
  IF \E i \in 1..Len(boxes) : boxes[i].id = id
  THEN SelectSeq(boxes, LAMBDA b : b.id # id)
  ELSE SubSeq(boxes, 1, Len(boxes) - 1)

\* a variant that also drops the boxes inserted after the one with the id
RemoveBoxAndAfter(boxes, id) ==
  IF \E i \in 1..Len(boxes) : boxes[i].id = id
  THEN SubSeq(boxes, 1, (CHOOSE i \in 1..Len(boxes) : boxes[i].id = id) - 1)
  ELSE boxes

\* updated[currentIndex].filter((b) => b.id !== selectedBoxId)
RemoveBox(boxes, id) == SelectSeq(boxes, LAMBDA b : b.id # id)

\* with no selection the handler returns at once (op "delete-none")
HandleDelete ==
  /\ Tick
  /\ IF selectedId = Null
     THEN /\ last' = Event("delete-none", mode, NullPt, FALSE, FALSE)
          /\ UNCHANGED <<annotations, selectedId, hasUnsavedChanges>>
     ELSE /\ annotations' =
               [annotations EXCEPT ![currentIndex] = RemoveBox(@, selectedId)]
          /\ selectedId' = Null
          /\ hasUnsavedChanges' = TRUE
          /\ last' = Event("delete", mode, NullPt, FALSE, FALSE)
  /\ UNCHANGED <<PureVars, HostVars, width, height, image, currentIndex,
                 activeLabel, mode, startPoint, dragOffset, resizingCorner,
                 nextId, grab, error>>
  /\ DrawCanvas

Next ==
  \/ \E e \in MouseEvents : HandleMouseDown(e)
  \/ \E e \in MouseEvents : HandleMouseMove(e)
  \/ \E e \in MouseEvents : HandleMouseUp(e)
  \/ \E i \in 1..Len(Labels) : HandleLabelChange(Labels[i])
  \/ HandleDelete

Spec == Init /\ [][Next]_vars

(***************************************************************************)
(* The editor on its own, mounted before an image is decoded: its prop     *)
(* `image` is null, drawCanvas has returned early on every render and the  *)
(* frame ref is still null; the prop then changes to the decoded image     *)
(***************************************************************************)
InitNoImage ==
  /\ width \in ContainerWidths
  /\ height = CANVAS_HEIGHT
  /\ image = NoImage
  /\ annotations = [i \in 1..Len(Files) |-> <<>>]
  /\ currentIndex = 1
  /\ selectedId = Null
  /\ activeLabel = Labels[1]
  /\ imageDrawData = NoFrame
  /\ nextId = 0
  /\ EditorMounted
  /\ HostAtRest
  /\ roundTrip = NoRoundTrip
  /\ resize = NoResize

\* the prop `image` changes from null to a decoded image; the render effect
\* runs drawCanvas, which writes the frame
SetImage ==
  /\ image = NoImage
  /\ image' \in Images
  /\ UNCHANGED <<PureVars, HostVars, width, height, annotations, currentIndex,
                 selectedId, activeLabel, mode, startPoint, dragOffset,
                 resizingCorner, nextId, grab, last, events, error,
                 hasUnsavedChanges>>
  /\ DrawCanvas

NextEditor == Next \/ SetImage

SpecEditor == InitNoImage /\ [][NextEditor]_vars

(***************************************************************************)
(* The Annotator page around the editor: two files with one stored         *)
(* annotation each, loading of the file data and of the image, saving, and *)
(* changing the file shown. A response of the server and the decoding of   *)
(* an image arrive as steps of their own; one save is in flight at a time. *)
(***************************************************************************)
\* the pointer over the canvas: inside the stored box, and on empty canvas
\* above the image
HostPoints == { <<200, 200>>, <<300, 50>> }
HostMouseEvents ==
  { [clientX |-> p[1] + Rect(0, 0).left, clientY |-> p[2] + Rect(0, 0).top] :
      p \in HostPoints }

\* the image decoded for a file: img.src is the data URL of the file's data
ImageOf(i) == [src |-> Files[i]] @@ (CHOOSE img \in Images : TRUE)

\* the object-detection annotation the server stores at the start for file i,
\* as fetchFileData maps it to a box (id is its annotationId)
StoredBox(i) ==
  [id |-> i, x |-> Q(1, 8), y |-> Q(1, 8), width |-> Q(1, 4),
   height |-> Q(1, 4), label |-> Labels[i]]

InitHost ==
  /\ width \in ContainerWidths
  /\ height = CANVAS_HEIGHT
  /\ image = NoImage
  /\ annotations = [i \in 1..Len(Files) |-> <<>>]
  /\ currentIndex = 1
  /\ selectedId = Null
  /\ activeLabel = Labels[1]
  /\ imageDrawData = NoFrame
  /\ nextId = Len(Files)
  /\ EditorMounted
  /\ hasUnsavedChanges = FALSE
  /\ isSaving = FALSE
  /\ fileData = NoFileData
  /\ server = [i \in 1..Len(Files) |-> <<StoredBox(i)>>]
  /\ save = NoSave
  /\ save2 = NoSave
  /\ lastSent = server
  /\ fetching = {1}
  /\ decoding = {}
  /\ roundTrip = NoRoundTrip
  /\ resize = NoResize

\* setCurrentIndex(i); when the index changes, the effect on currentIndex
\* starts fetchFileData for the new file
SetCurrentIndex(i, op) ==
  /\ currentIndex' = i
  /\ fetching' = IF i # currentIndex THEN fetching \cup {i} ELSE fetching
  /\ last' = Event(IF i # currentIndex THEN "index" ELSE op, mode, NullPt,
                   FALSE, FALSE)

\* the response of /api/files/{fileId}/download arrives in fetchFileData
FetchFileDataDone(i) ==
  /\ i \in fetching
  /\ fetching' = fetching \ {i}
  /\ fileData' = FileData(i, server[i])
  /\ hasUnsavedChanges' = FALSE
  /\ decoding' = decoding \cup {i}
  /\ annotations' = [annotations EXCEPT ![i] = server[i]]
  /\ UNCHANGED <<PureVars, save2, lastSent, isSaving, server, save, width, height, image,
                 currentIndex, selectedId, activeLabel, mode, startPoint,
                 dragOffset, resizingCorner, nextId, grab, last, events,
                 error>>
  /\ DrawCanvas

\* img.onload: setImage(img); the editor is rendered from now on
ImageOnload(i) ==
  /\ i \in decoding
  /\ decoding' = decoding \ {i}
  /\ image' = ImageOf(i)
  /\ UNCHANGED <<PureVars, save2, lastSent, isSaving, fileData, server, save, fetching, width,
                 height, annotations, currentIndex, selectedId, activeLabel,
                 mode, startPoint, dragOffset, resizingCorner, nextId, grab,
                 last, events, error, hasUnsavedChanges>>
  /\ DrawCanvas

\* a variant that reads the boxes of the page when each request is made
BoxesToSaveLive == CurrentBoxes

\* `annotations[currentIndex] || []` of handleSaveAnnotations: `annotations`
\* and `currentIndex` are those of the render in which the handler was
\* created, that is the state when the save was invoked
BoxesToSave == save.boxes

\* handleSaveAnnotations up to its first await: next is the index that the
\* caller sets when the save has ended (Null when it sets none)
BeginSave(next) ==
  /\ save.stage = "idle"
  /\ fileData # NoFileData
  /\ isSaving' = TRUE
  /\ save' = [stage |-> "sending", file |-> fileData.file,
              existing |-> fileData.annotations, boxes |-> CurrentBoxes,
              sent |-> <<>>, next |-> next]

\* the requests of the save and the statement after the last of them: a
\* DELETE for every annotation the file had when its data was loaded, a POST
\* for every box (the server gives each annotation an id), then
\* setHasUnsavedChanges(false) and the download request. The requests are
\* awaited one after another; they are one step here, taken some time after
\* the save was invoked
SaveRequests ==
  /\ save.stage = "sending"
  /\ LET kept == SelectSeq(server[save.file],
                           LAMBDA a : \A k \in 1..Len(save.existing) :
                                        save.existing[k].id # a.id)
         posted == [k \in 1..Len(BoxesToSave) |->
                      [BoxesToSave[k] EXCEPT !.id = nextId + k]]
     IN  server' = [server EXCEPT ![save.file] = kept \o posted]
  /\ save' = [save EXCEPT !.stage = "refreshing", !.sent = BoxesToSave]
  /\ nextId' = nextId + Len(BoxesToSave)
  /\ hasUnsavedChanges' = FALSE
  /\ lastSent' = [lastSent EXCEPT ![save.file] = BoxesToSave]
  /\ UNCHANGED <<PureVars, save2, isSaving, fileData, fetching, decoding, width,
                 height, image, annotations, currentIndex, selectedId,
                 activeLabel, mode, startPoint, dragOffset, resizingCorner,
                 grab, last, events, error>>
  /\ DrawCanvas

\* the download response: setFileData, setIsSaving(false), and the caller's
\* setCurrentIndex (handleSaveAndNext, handleFileChange)
SaveFinish ==
  /\ save.stage = "refreshing"
  /\ fileData' = FileData(save.file, server[save.file])
  /\ isSaving' = FALSE
  /\ save' = NoSave
  /\ IF save.next # Null
     THEN SetCurrentIndex(save.next, "saved")
     ELSE UNCHANGED <<currentIndex, fetching, last>>
  /\ UNCHANGED <<PureVars, save2, lastSent, server, decoding, width, height, image,
                 annotations, selectedId, activeLabel, mode, startPoint,
                 dragOffset, resizingCorner, nextId, grab, events, error,
                 hasUnsavedChanges>>
  /\ DrawCanvas

\* the Save Annotations button (disabled while saving or without changes)
HandleSaveAnnotations ==
  /\ Tick
  /\ ~isSaving /\ hasUnsavedChanges
  /\ BeginSave(Null)
  /\ last' = Event("save", mode, NullPt, FALSE, FALSE)
  /\ UNCHANGED <<PureVars, save2, lastSent, fileData, server, fetching, decoding, width, height,
                 image, annotations, currentIndex, selectedId, activeLabel,
                 mode, startPoint, dragOffset, resizingCorner, nextId, grab,
                 error, hasUnsavedChanges>>
  /\ DrawCanvas

\* the ~ key: handleSaveAndNext
HandleSaveAndNext ==
  LET next == IF currentIndex < Len(Files) THEN currentIndex + 1 ELSE 1
  IN  /\ Tick
      /\ IF fileData = NoFileData
         THEN \* handleSaveAnnotations returns at once
              /\ SetCurrentIndex(next, "save")
              /\ UNCHANGED <<isSaving, save>>
         ELSE /\ BeginSave(next)
              /\ last' = Event("save", mode, NullPt, FALSE, FALSE)
              /\ UNCHANGED <<currentIndex, fetching>>
      /\ UNCHANGED <<PureVars, save2, lastSent, fileData, server, decoding, width, height,
                     image, annotations, selectedId, activeLabel, mode,
                     startPoint, dragOffset, resizingCorner, nextId, grab,
                     error, hasUnsavedChanges>>
      /\ DrawCanvas

\* a click on a file of the list; confirmed is the answer to window.confirm
HandleFileChange(index, confirmed) ==
  /\ Tick
  /\ IF hasUnsavedChanges /\ confirmed /\ fileData # NoFileData
     THEN /\ BeginSave(index)
          /\ last' = Event("save", mode, NullPt, FALSE, FALSE)
          /\ UNCHANGED <<currentIndex, fetching, hasUnsavedChanges>>
     ELSE /\ SetCurrentIndex(index, "file")
          /\ hasUnsavedChanges' =
               IF hasUnsavedChanges /\ ~confirmed THEN FALSE
               ELSE hasUnsavedChanges
          /\ UNCHANGED <<isSaving, save>>
  /\ UNCHANGED <<PureVars, save2, lastSent, fileData, server, decoding, width, height, image,
                 annotations, selectedId, activeLabel, mode, startPoint,
                 dragOffset, resizingCorner, nextId, grab, error>>
  /\ DrawCanvas

\* an event of the user (pointer, button, key, click on the file list) or the
\* arrival of a response or of a decoded image
NextHost ==
  \/ /\ events < MaxHostEvents
     /\ \/ image # NoImage /\ \E e \in HostMouseEvents : HandleMouseDown(e)
        \/ image # NoImage /\ \E e \in HostMouseEvents : HandleMouseMove(e)
        \/ image # NoImage /\ \E e \in HostMouseEvents : HandleMouseUp(e)
        \/ \E i \in 1..Len(Labels) : HandleLabelChange(Labels[i])
        \/ HandleDelete
        \/ HandleSaveAnnotations
        \/ HandleSaveAndNext
        \/ \E i \in 1..Len(Files), c \in BOOLEAN : HandleFileChange(i, c)
  \/ \E i \in 1..Len(Files) : FetchFileDataDone(i)
  \/ \E i \in 1..Len(Files) : ImageOnload(i)
  \/ SaveRequests
  \/ SaveFinish

SpecHost == InitHost /\ [][NextHost]_vars

(***************************************************************************)
(* The conversions on their own: a pixel rectangle inside the drawn image  *)
(* is normalized, mapped back to the canvas and normalized again, for      *)
(* several canvas sizes and images                                         *)
(***************************************************************************)
RoundTripWidths == {800, 640, 1000}
RoundTripImages ==
  { [width |-> 400, height |-> 200], [width |-> 300, height |-> 200],
    [width |-> 200, height |-> 400], [width |-> 640, height |-> 480] }
RoundTripPixels == {0, 40, 125, 333, 500, 640}

InsideImage(r, f) ==
  /\ RLe(f.x, r.x) /\ RLe(RAdd(r.x, r.width), RAdd(f.x, f.width))
  /\ RLe(f.y, r.y) /\ RLe(RAdd(r.y, r.height), RAdd(f.y, f.height))

InitRoundTrip ==
  /\ width \in RoundTripWidths
  /\ height = CANVAS_HEIGHT
  /\ image \in RoundTripImages
  /\ annotations = [i \in 1..Len(Files) |-> <<>>]
  /\ currentIndex = 1
  /\ selectedId = Null
  /\ activeLabel = Labels[1]
  /\ imageDrawData = ComputeFrame(width, height, image)
  /\ nextId = 0
  /\ EditorMounted
  /\ HostAtRest
  /\ resize = NoResize
  /\ \E x \in RoundTripPixels, y \in RoundTripPixels,
        w \in RoundTripPixels, h \in RoundTripPixels :
       LET r == [x |-> R(x), y |-> R(y), width |-> R(w), height |-> R(h)]
       IN  /\ InsideImage(r, imageDrawData)
           /\ roundTrip = [NoRoundTrip EXCEPT !.stage = "rect", !.rect = r]

EditorVars ==
  <<width, height, image, annotations, currentIndex, selectedId, activeLabel,
    imageDrawData, mode, startPoint, dragOffset, resizingCorner, nextId,
    grab, last, events, error, hasUnsavedChanges, HostVars>>

Normalize ==
  /\ roundTrip.stage = "rect"
  /\ roundTrip' = [roundTrip EXCEPT
                     !.stage = "norm",
                     !.norm = ToNormalized(roundTrip.rect, imageDrawData)]
  /\ UNCHANGED <<EditorVars, resize>>

Project ==
  /\ roundTrip.stage = "norm"
  /\ roundTrip' = [roundTrip EXCEPT
                     !.stage = "canvas",
                     !.canvas = ToCanvas(roundTrip.norm, imageDrawData)]
  /\ UNCHANGED <<EditorVars, resize>>

NormalizeAgain ==
  /\ roundTrip.stage = "canvas"
  /\ roundTrip' = [roundTrip EXCEPT
                     !.stage = "back",
                     !.back = ToNormalized(roundTrip.canvas, imageDrawData)]
  /\ UNCHANGED <<EditorVars, resize>>

NextRoundTrip == Normalize \/ Project \/ NormalizeAgain

SpecRoundTrip == InitRoundTrip /\ [][NextRoundTrip]_vars

(***************************************************************************)
(* The resize sample on its own: a stored box, one of its four corners and *)
(* a pointer position, for several canvas sizes and images                 *)
(***************************************************************************)
ResizeBoxes ==
  { [id |-> 1, x |-> Q(1, 5), y |-> Q(1, 5), width |-> Q(1, 5),
     height |-> Q(1, 5), label |-> Labels[1]],
    [id |-> 1, x |-> Q(1, 8), y |-> Q(1, 8), width |-> Q(1, 4),
     height |-> Q(1, 4), label |-> Labels[2]],
    [id |-> 1, x |-> Q(1, 2), y |-> R(0), width |-> Q(1, 2),
     height |-> R(1), label |-> Labels[1]] }
ResizePixelsX == {0, 100, 160, 240, 320, 500, 800}
ResizePixelsY == {0, 50, 180, 220, 260, 550}

InitResize ==
  /\ width \in RoundTripWidths
  /\ height = CANVAS_HEIGHT
  /\ image \in RoundTripImages
  /\ annotations = [i \in 1..Len(Files) |-> <<>>]
  /\ currentIndex = 1
  /\ selectedId = Null
  /\ activeLabel = Labels[1]
  /\ imageDrawData = ComputeFrame(width, height, image)
  /\ nextId = 0
  /\ EditorMounted
  /\ HostAtRest
  /\ roundTrip = NoRoundTrip
  /\ \E box \in ResizeBoxes, corner \in 0..3,
        x \in ResizePixelsX, y \in ResizePixelsY :
       resize = [NoResize EXCEPT !.stage = "in", !.box = box,
                                 !.corner = corner, !.pos = Pt(x, y)]

ResizeSample ==
  /\ resize.stage = "in"
  /\ resize' = [resize EXCEPT
                  !.stage = "out",
                  !.out = ResizedBox(resize.box, resize.corner, resize.pos,
                                     imageDrawData)]
  /\ UNCHANGED <<EditorVars, roundTrip>>

NextResize == ResizeSample

SpecResize == InitResize /\ [][NextResize]_vars

(***************************************************************************)
(* The Annotator page with overlapping saves: the ~ key is handled while   *)
(* isSaving is set (only the Save button is disabled by it), so a second   *)
(* call of handleSaveAnnotations can start before the first has ended. It  *)
(* runs with the fileData, the boxes and the index of the render in which  *)
(* the key was pressed.                                                    *)
(***************************************************************************)
\* the ~ key while a save is in flight
HandleSaveAndNextAgain ==
  LET next == IF currentIndex < Len(Files) THEN currentIndex + 1 ELSE 1
  IN  /\ Tick
      /\ save.stage # "idle"
      /\ save2.stage = "idle"
      /\ fileData # NoFileData
      /\ isSaving' = TRUE
      /\ save2' = [stage |-> "sending", file |-> fileData.file,
                   existing |-> fileData.annotations, boxes |-> CurrentBoxes,
                   sent |-> <<>>, next |-> next]
      /\ last' = Event("save", mode, NullPt, FALSE, FALSE)
      /\ UNCHANGED <<PureVars, save, lastSent, fileData, server, fetching,
                     decoding, width, height, image, annotations,
                     currentIndex, selectedId, activeLabel, mode, startPoint,
                     dragOffset, resizingCorner, nextId, grab, error,
                     hasUnsavedChanges>>
      /\ DrawCanvas

\* the requests of the second call: a DELETE for every annotation of its
\* fileData, a POST for every box of its snapshot
SaveRequestsAgain ==
  /\ save2.stage = "sending"
  /\ LET kept == SelectSeq(server[save2.file],
                           LAMBDA a : \A k \in 1..Len(save2.existing) :
                                        save2.existing[k].id # a.id)
         posted == [k \in 1..Len(save2.boxes) |->
                      [save2.boxes[k] EXCEPT !.id = nextId + k]]
     IN  server' = [server EXCEPT ![save2.file] = kept \o posted]
  /\ save2' = [save2 EXCEPT !.stage = "refreshing", !.sent = save2.boxes]
  /\ nextId' = nextId + Len(save2.boxes)
  /\ hasUnsavedChanges' = FALSE
  /\ lastSent' = [lastSent EXCEPT ![save2.file] = save2.boxes]
  /\ UNCHANGED <<PureVars, save, isSaving, fileData, fetching, decoding,
                 width, height, image, annotations, currentIndex, selectedId,
                 activeLabel, mode, startPoint, dragOffset, resizingCorner,
                 grab, last, events, error>>
  /\ DrawCanvas

\* the download response of the second call, and setCurrentIndex of
\* handleSaveAndNext
SaveFinishAgain ==
  /\ save2.stage = "refreshing"
  /\ fileData' = FileData(save2.file, server[save2.file])
  /\ isSaving' = FALSE
  /\ save2' = NoSave
  /\ SetCurrentIndex(save2.next, "saved")
  /\ UNCHANGED <<PureVars, save, lastSent, server, decoding, width, height,
                 image, annotations, selectedId, activeLabel, mode,
                 startPoint, dragOffset, resizingCorner, nextId, grab, events,
                 error, hasUnsavedChanges>>
  /\ DrawCanvas

NextSaves ==
  \/ NextHost
  \/ events < MaxHostEvents /\ HandleSaveAndNextAgain
  \/ SaveRequestsAgain
  \/ SaveFinishAgain

SpecSaves == InitHost /\ [][NextSaves]_vars

(***************************************************************************)
(* The editor under resizes of the window and loads of other images: the   *)
(* page passes a new width (clientWidth of the container) or a new decoded *)
(* image, and the render effect runs drawCanvas                            *)
(***************************************************************************)
FrameWidths == {800, 500}
FrameImages ==
  { [width |-> 400, height |-> 200], [width |-> 200, height |-> 400] }

InitFrame ==
  /\ width \in FrameWidths
  /\ height = CANVAS_HEIGHT
  /\ image \in FrameImages
  /\ annotations = [i \in 1..Len(Files) |-> <<>>]
  /\ currentIndex = 1
  /\ selectedId = Null
  /\ activeLabel = Labels[1]
  /\ imageDrawData = ComputeFrame(width, height, image)
  /\ nextId = 0
  /\ EditorMounted
  /\ HostAtRest
  /\ roundTrip = NoRoundTrip
  /\ resize = NoResize

\* the resize listener of the window: setCanvasDims with the clientWidth of
\* the container and CANVAS_HEIGHT
UpdateCanvasSize(w) ==
  /\ w # width
  /\ width' = w
  /\ height' = CANVAS_HEIGHT
  /\ last' = Event("resize", mode, NullPt, FALSE, FALSE)
  /\ UNCHANGED <<PureVars, HostVars, image, annotations, currentIndex,
                 selectedId, activeLabel, mode, startPoint, dragOffset,
                 resizingCorner, nextId, grab, events, error,
                 hasUnsavedChanges>>
  /\ DrawCanvas

\* img.onload of another file's image: setImage(img)
ImageLoaded(img) ==
  /\ img # image
  /\ image' = img
  /\ last' = Event("image", mode, NullPt, FALSE, FALSE)
  /\ UNCHANGED <<PureVars, HostVars, width, height, annotations, currentIndex,
                 selectedId, activeLabel, mode, startPoint, dragOffset,
                 resizingCorner, nextId, grab, events, error,
                 hasUnsavedChanges>>
  /\ DrawCanvas

NextFrame ==
  \/ /\ events < MaxFrameEvents
     /\ \/ \E e \in HostMouseEvents : HandleMouseDown(e)
        \/ \E e \in HostMouseEvents : HandleMouseMove(e)
        \/ \E e \in HostMouseEvents : HandleMouseUp(e)
  \/ \E w \in FrameWidths : UpdateCanvasSize(w)
  \/ \E img \in FrameImages : ImageLoaded(img)

SpecFrame == InitFrame /\ [][NextFrame]_vars

(***************************************************************************)
(* Properties                                                              *)
(***************************************************************************)
InUnit(box) ==
  /\ RLe(R(0), box.x)
  /\ RLe(R(0), box.y)
  /\ RLe(RAdd(box.x, box.width), R(1))
  /\ RLe(RAdd(box.y, box.height), R(1))

BoxIndices == 1..Len(CurrentBoxes)

\* the hit of a point against the current boxes, stated from the geometry
HandleHits(p) ==
  { <<i, c>> \in BoxIndices \X (0..3) :
      NearCorner(p.x, p.y, Corner(CurrentBoxes[i], imageDrawData, c)) }
BodyHits(p) ==
  { i \in BoxIndices : InBody(p.x, p.y, CurrentBoxes[i], imageDrawData) }

\* C1: after any sequence of draw, move and resize gestures every box of the
\* list lies inside the image: 0 <= x, 0 <= y, x + width <= 1 and
\* y + height <= 1.
C1_BoxesInsideImage == \A i \in BoxIndices : InUnit(CurrentBoxes[i])

\* C2: box bodies are hit-tested in reverse insertion order: a pointer-down at
\* a point inside the bodies of several boxes and outside every handle radius
\* selects the box inserted last, the one rendered on top.
C2_TopmostBodySelected ==
  (last.op = "down" /\ HandleHits(last.pos) = {}
     /\ Cardinality(BodyHits(last.pos)) >= 2)
    => selectedId = CurrentBoxes[MaxOf(BodyHits(last.pos))].id

C4_ClickCreatesNoBox ==
  (last.op = "up" /\ last.mode = "drawing" /\ last.pos = grab.pos)
    => ~last.changed

\* C5: a pointer-down is dispatched on the hit result alone, whatever the
\* mode: a handle selects its box, records the corner and enters Resizing; a
\* body selects its box, records the pointer as drag anchor and enters Moving;
\* empty space deselects, records the draw origin and enters Drawing. Only a
\* pointer-down takes the editor out of Idle.
C5_PointerDownDispatch ==
  /\ last.op = "down" =>
       IF HandleHits(last.pos) # {}
       THEN /\ mode = "resizing"
            /\ \E h \in HandleHits(last.pos) :
                 selectedId = CurrentBoxes[h[1]].id /\ resizingCorner = h[2]
       ELSE IF BodyHits(last.pos) # {}
       THEN /\ mode = "moving"
            /\ \E i \in BodyHits(last.pos) : selectedId = CurrentBoxes[i].id
            /\ dragOffset = last.pos
       ELSE /\ mode = "drawing"
            /\ selectedId = Null
            /\ startPoint = last.pos
  /\ (last.mode = "none" /\ mode # "none") => last.op = "down"

\* a pointer-down during Resizing lands on a body and enters Moving
C5_Witness ==
  /\ last.op = "down"
  /\ last.mode = "resizing"
  /\ mode = "moving"
  /\ selectedId # Null
  /\ dragOffset = last.pos

\* C6: every pointer-up, in any mode, leaves the editor in Idle with draw
\* origin, drag anchor and active corner cleared; a pointer-up in Moving or
\* Resizing does not change the box list.
C6_PointerUpReturnsToIdle ==
  /\ [](last.op = "up" =>
          /\ mode = "none"
          /\ startPoint = NullPt
          /\ dragOffset = NullPt
          /\ resizingCorner = NullCorner)
  /\ [][(last'.op = "up" /\ mode \in {"moving", "resizing"})
          => (annotations' = annotations /\ ~last'.changed)]_vars

\* a pointer-up ends a move gesture that has moved a box
C6_Witness ==
  /\ last.op = "up"
  /\ last.mode = "moving"
  /\ grab.samples > 0
  /\ mode = "none"
  /\ dragOffset = NullPt

\* C7: a draw gesture that commits appends exactly one box at the end of the
\* list and leaves the existing boxes unchanged; the new box has a fresh id,
\* the active label, and lies inside the image.
C7_DrawAppendsOneBox ==
  [][(last'.op = "up" /\ last'.changed) =>
       LET old == CurrentBoxes
           new == CurrentBoxes'
           b == new[Len(new)]
       IN  /\ Len(new) = Len(old) + 1
           /\ SubSeq(new, 1, Len(old)) = old
           /\ \A i \in 1..Len(old) : old[i].id # b.id
           /\ b.id # Null
           /\ b.id > nextId
           /\ b.label = activeLabel
           /\ InUnit(b)]_vars

\* a second box is committed from a pointer-down in the letterbox margin,
\* after the active label was changed
C7_Witness ==
  /\ last.op = "up"
  /\ last.changed
  /\ Len(CurrentBoxes) = 2
  /\ RLt(grab.pos.y, imageDrawData.y)
  /\ activeLabel = Labels[2]
  /\ CurrentBoxes[2].label = activeLabel
  /\ CurrentBoxes[1].label = Labels[1]

\* C8: canvas 800x600 and image 400x200 give scale 2, drawn size 800x400 and
\* offsets (0, 100); a draw from (100,150) to (300,250) commits the box
\* x = 0.125, y = 0.125, width = 0.25, height = 0.25.
C8_EndToEndScenario ==
  (width = 800 /\ height = 600 /\ image = [width |-> 400, height |-> 200]) =>
    /\ imageDrawData = [x |-> R(0), y |-> R(100), width |-> R(800),
                        height |-> R(400), scale |-> R(2)]
    /\ (/\ last.op = "up" /\ last.mode = "drawing"
        /\ grab.pos = Pt(100, 150) /\ last.pos = Pt(300, 250)) =>
         LET b == CurrentBoxes[Len(CurrentBoxes)]
         IN  /\ b.x = Q(1, 8) /\ b.y = Q(1, 8)
             /\ b.width = Q(1, 4) /\ b.height = Q(1, 4)

C8_Witness ==
  /\ width = 800 /\ height = 600 /\ image = [width |-> 400, height |-> 200]
  /\ last.op = "up" /\ last.mode = "drawing"
  /\ grab.pos = Pt(100, 150) /\ last.pos = Pt(300, 250)
  /\ Len(CurrentBoxes) > 0
  /\ CurrentBoxes[Len(CurrentBoxes)].width = Q(1, 4)

SelectedBoxes == { i \in BoxIndices : CurrentBoxes[i].id = selectedId }

\* C10: in Moving the selected box is translated sample over sample: after a
\* pointer-down at p0 and samples p1..pn its pixel position is the position
\* it had at pointer-down plus (pn - p0), the anchor is pn, and its width and
\* height are those it had at pointer-down.
C10_MoveIsTranslation ==
  (mode = "moving" /\ dragOffset # NullPt) =>
    /\ (last.op = "move" /\ last.changed) => dragOffset = last.pos
    /\ \A i \in SelectedBoxes :
         LET b == CurrentBoxes[i]
             f == imageDrawData
         IN  /\ AbsX(b, f) = RAdd(AbsX(grab.box, f),
                                  RSub(dragOffset.x, grab.pos.x))
             /\ AbsY(b, f) = RAdd(AbsY(grab.box, f),
                                  RSub(dragOffset.y, grab.pos.y))
             /\ b.width = grab.box.width
             /\ b.height = grab.box.height

\* two samples have moved the selected box away from where it was grabbed
C10_Witness ==
  /\ mode = "moving"
  /\ last.op = "move"
  /\ grab.samples >= 2
  /\ last.pos.x # grab.pos.x
  /\ last.pos.y # grab.pos.y
  /\ \E i \in SelectedBoxes : CurrentBoxes[i] # grab.box

\* the record of a box with the geometry of a normalized rectangle
AsBox(n) == [id |-> 1, x |-> n.x, y |-> n.y, width |-> n.width,
             height |-> n.height, label |-> Labels[1]]

C11_ResizeKeepsRectangleValid ==
  resize.stage = "out" =>
    LET f == imageDrawData
        b == resize.box
        o == resize.out
        p == resize.pos
        opp == Corner(b, f, 3 - resize.corner)
    IN  /\ RLe(R(0), o.width)
        /\ RLe(R(0), o.height)
        /\ AbsX(o, f) = RMin(p.x, opp.x)
        /\ AbsY(o, f) = RMin(p.y, opp.y)
        /\ RAdd(AbsX(o, f), AbsW(o, f)) = RMax(p.x, opp.x)
        /\ RAdd(AbsY(o, f), AbsH(o, f)) = RMax(p.y, opp.y)
        /\ o.id = b.id /\ o.label = b.label
        /\ (/\ b.x = Q(1, 5) /\ b.y = Q(1, 5)
            /\ b.width = Q(1, 5) /\ b.height = Q(1, 5)
            /\ resize.corner = 3
            /\ RLt(p.x, AbsX(b, f)) /\ RLt(p.y, AbsY(b, f))) =>
             /\ AbsX(o, f) = p.x /\ AbsY(o, f) = p.y
             /\ RAdd(o.x, o.width) = b.x
             /\ RAdd(o.y, o.height) = b.y

\* the bottom-right handle of the 0.2 box was dragged past its top-left corner
C11_Witness ==
  /\ resize.stage = "out"
  /\ resize.box.x = Q(1, 5) /\ resize.box.width = Q(1, 5)
  /\ resize.corner = 3
  /\ RLt(resize.pos.x, AbsX(resize.box, imageDrawData))
  /\ RLt(resize.pos.y, AbsY(resize.box, imageDrawData))
  /\ RAdd(resize.out.x, resize.out.width) = resize.box.x
  /\ RLt(R(0), resize.out.width)
  /\ RLt(R(0), resize.out.height)

\* C12: inside the editor the selection changes only on a pointer-down: no
\* pointer-move and no pointer-up, in any mode, calls the selection callback
\* or changes which box is selected.
C12_SelectionOnlyOnPointerDown ==
  [][(events' = events + 1 /\ last'.op \in {"move", "up"}) =>
       (selectedId' = selectedId /\ ~last'.selected)]_vars

\* a pointer-up ends a resize gesture whose samples changed the selected box,
\* which is still selected
C12_Witness ==
  /\ last.op = "up"
  /\ last.mode = "resizing"
  /\ grab.samples > 0
  /\ selectedId # Null
  /\ selectedId = grab.box.id
  /\ \E i \in SelectedBoxes : CurrentBoxes[i] # grab.box

\* C13: a pointer-up that no pointer-down on empty space preceded (the editor
\* is Idle, or holds no draw origin) is a no-op: it creates no box, does not
\* call the change callback and raises no error, with or without a frame.
C13_StrayPointerUpIsNoOp ==
  [][(/\ events' = events + 1
      /\ last'.op = "up"
      /\ (mode = "none" \/ startPoint = NullPt)) =>
       /\ annotations' = annotations
       /\ nextId' = nextId
       /\ ~last'.changed
       /\ hasUnsavedChanges' = hasUnsavedChanges
       /\ error' = error
       /\ mode' = "none"]_vars

\* a pointer-up arrived in Idle while the frame was still null, and another
\* one in Idle after a box had been drawn
C13_Witness ==
  /\ last.op = "up"
  /\ last.mode = "none"
  /\ ~last.changed
  /\ ~error
  /\ mode = "none"
  /\ imageDrawData = NoFrame \/ Len(CurrentBoxes) > 0

\* C14: while no frame exists (no image is loaded, so drawCanvas has never
\* written the frame) pointer-down, pointer-move and pointer-up are ignored:
\* no sequence of pointer events raises an error, creates or changes a box.
C14_NoFramePointerEventsIgnored ==
  imageDrawData = NoFrame =>
    /\ ~error
    /\ \A i \in 1..Len(Files) : annotations[i] = <<>>

\* C17: transient draw-state fields are cleared on mode exit: in every
\* reachable state, also after two pointer-downs with no pointer-up between
\* them, a draw origin is held only in Drawing, a drag anchor only in Moving
\* and an active corner only in Resizing.
C17_TransientFieldsClearedOnModeExit ==
  /\ startPoint # NullPt => mode = "drawing"
  /\ dragOffset # NullPt => mode = "moving"
  /\ resizingCorner # NullCorner => mode = "resizing"

\* C18: every render issues its paint operations in this order: clear the
\* canvas, draw the image, draw every box (stroke and label chip) in
\* insertion order, and last the four corner handles of the selected box
\* only; no handle is painted for an unselected box and none when nothing is
\* selected.
C18_PaintOrder ==
  image # NoImage =>
    LET boxes == CurrentBoxes
        Body(i) ==
          << <<"strokeRect", boxes[i].id,
               IF boxes[i].id = selectedId THEN "cyan" ELSE "red">>,
             <<"fillRect", boxes[i].id>>,
             <<"fillText", boxes[i].id, boxes[i].label>> >>
        Handles(i) ==
          IF boxes[i].id = selectedId
          THEN [c \in 1..4 |-> <<"handle", boxes[i].id, c - 1>>]
          ELSE <<>>
    IN  Painted =
          << <<"clearRect">>, <<"drawImage">> >>
            \o Flatten([i \in 1..Len(boxes) |-> Body(i)])
            \o Flatten([i \in 1..Len(boxes) |-> Handles(i)])

\* the boxes of a list without their ids
Unidentified(boxes) == [i \in 1..Len(boxes) |-> [boxes[i] EXCEPT !.id = Null]]

\* C15: delete and label reassignment with a selected id that matches no box
\* of the current image are no-ops: the box list of the current image keeps
\* the same boxes in the same order with the same fields, and nothing is
\* raised.
C15_UnknownIdIsNoOp ==
  [][(/\ events' = events + 1
      /\ last'.op \in {"delete", "label"}
      /\ selectedId # Null
      /\ \A i \in BoxIndices : CurrentBoxes[i].id # selectedId) =>
       /\ CurrentBoxes' = CurrentBoxes
       /\ error' = error]_vars

\* a box of file 1 was selected, file 2 is shown with its own box, and delete
\* was invoked there
C15_Witness ==
  /\ last.op = "delete"
  /\ currentIndex = 2
  /\ grab.file = 1
  /\ grab.box # NoBox
  /\ Len(CurrentBoxes) > 0
  /\ \A i \in BoxIndices : CurrentBoxes[i].id # grab.box.id

\* C16: whenever the active image changes (file chosen in the list, or
\* save-and-next) the draw state is reset: the editor is in Idle with no
\* anchor and no active corner, so a gesture started on the previous image
\* never moves, resizes or creates a box on the new image.
C16_DrawStateResetOnImageChange ==
  /\ last.op = "index" =>
       /\ mode = "none"
       /\ startPoint = NullPt
       /\ dragOffset = NullPt
       /\ resizingCorner = NullCorner
  /\ (last.op \in {"move", "up"} /\ last.changed) => grab.file = currentIndex

\* C19: a save works on the boxes the current image had when the save was
\* invoked and does not block interaction: the boxes sent to the server are
\* exactly those of the snapshot, whatever edits (draw, move, resize, delete,
\* relabel) are made to the list between the invocation and the end of the
\* save; the only control the save disables is its own button (isSaving).
C19_SaveUsesSnapshot ==
  /\ save.stage = "refreshing" =>
       /\ save.sent = save.boxes
       /\ Len(server[save.file]) >= Len(save.boxes)
       /\ Unidentified(SubSeq(server[save.file],
                              Len(server[save.file]) - Len(save.boxes) + 1,
                              Len(server[save.file])))
            = Unidentified(save.boxes)
  /\ save.stage # "idle" <=> isSaving

\* the requests of a save have been made while the box it saves had been
\* moved after the save was invoked: the server holds the box as it was
C19_Witness ==
  /\ save.stage = "refreshing"
  /\ currentIndex = save.file
  /\ Len(save.boxes) > 0
  /\ save.sent = save.boxes
  /\ CurrentBoxes # save.boxes
  /\ last.op = "move" /\ last.changed

\* C20: every committed mutation of the current image's boxes (draw, move,
\* resize, delete, label change) is either persisted or staged as unsaved:
\* after such a mutation the host has sent that list to the server or has
\* its unsaved-changes flag set.
C20_MutationPersistedOrStaged ==
  (\/ last.changed
   \/ last.op = "delete"
   \/ last.op = "label" /\ selectedId # Null /\ fileData # NoFileData) =>
    \/ hasUnsavedChanges
    \/ Unidentified(server[currentIndex]) = Unidentified(CurrentBoxes)

\* C21: label reassignment with a box of the current image selected changes
\* only the label of that box: its id and geometry, every other box, the
\* order of the list and the lists of all other images are unchanged, and
\* the selection is kept.
C21_RelabelChangesOnlyLabel ==
  [][(/\ events' = events + 1
      /\ last'.op = "label"
      /\ \E i \in BoxIndices : CurrentBoxes[i].id = selectedId) =>
       /\ selectedId' = selectedId
       /\ currentIndex' = currentIndex
       /\ Len(CurrentBoxes') = Len(CurrentBoxes)
       /\ \A i \in BoxIndices :
            CurrentBoxes'[i] =
              IF CurrentBoxes[i].id = selectedId
              THEN [CurrentBoxes[i] EXCEPT !.label = activeLabel']
              ELSE CurrentBoxes[i]
       /\ \A k \in 1..Len(Files) :
            k # currentIndex => annotations'[k] = annotations[k]]_vars

\* the box grabbed by the last pointer-down carries another label than it had
\* then, next to a box that was not selected
C21_Witness ==
  /\ last.op = "label"
  /\ Len(CurrentBoxes) >= 2
  /\ grab.box # NoBox
  /\ selectedId = grab.box.id
  /\ \E i \in BoxIndices :
       /\ CurrentBoxes[i].id = selectedId
       /\ CurrentBoxes[i].label # grab.box.label
  /\ \E i \in BoxIndices : CurrentBoxes[i].id # selectedId

\* C22: after any sequence of canvas resizes and image loads the frame used
\* by hit-testing and by the draw / move / resize geometry is the aspect-fit
\* centred frame of the current canvas size and the current image: scale =
\* min(canvasWidth / imageWidth, canvasHeight / imageHeight), the drawn size
\* is within the canvas and each offset is half of the slack; and a resize
\* or an image load changes the normalized coordinates of no box.
C22_FrameIsAspectFit ==
  /\ [](image # NoImage =>
         LET f == imageDrawData
             scale == RMin(RDiv(R(width), R(image.width)),
                           RDiv(R(height), R(image.height)))
         IN  /\ f # NoFrame
             /\ f.scale = scale
             /\ f.width = RMul(R(image.width), scale)
             /\ f.height = RMul(R(image.height), scale)
             /\ RLe(f.width, R(width))
             /\ RLe(f.height, R(height))
             /\ RAdd(f.x, f.x) = RSub(R(width), f.width)
             /\ RAdd(f.y, f.y) = RSub(R(height), f.height))
  /\ [][(width' # width \/ height' # height \/ image' # image) =>
          annotations' = annotations]_vars

\* the window was resized to the narrow width while a box was held in Moving
\* or Resizing, under the portrait image
C22_Witness ==
  /\ last.op = "resize"
  /\ width = 500
  /\ image.height = 400
  /\ Len(CurrentBoxes) >= 1
  /\ mode \in {"moving", "resizing"}
  /\ imageDrawData.x = R(100)

\* the ids of a list of boxes, in list order
Ids(boxes) == [i \in 1..Len(boxes) |-> boxes[i].id]

\* C23: box ids are unique and stable: after any sequence of loads of stored
\* annotations, draws, moves, resizes, relabels and deletes no two boxes of
\* one image's list share an id, and a move, a resize or a relabel never
\* changes the id of a box.
C23_IdsUniqueAndStable ==
  /\ [](\A k \in 1..Len(Files) :
         \A i, j \in 1..Len(annotations[k]) :
           /\ annotations[k][i].id # Null
           /\ i # j => annotations[k][i].id # annotations[k][j].id)
  /\ [][(events' = events + 1 /\ last'.op \in {"move", "label"}) =>
          Ids(CurrentBoxes') = Ids(CurrentBoxes)]_vars

\* a list holding a loaded box and a drawn box, one of which has just been
\* moved or resized
C23_Witness ==
  /\ last.op = "move"
  /\ last.changed
  /\ Len(CurrentBoxes) >= 2
  /\ \E i \in BoxIndices : CurrentBoxes[i].id = StoredBox(currentIndex).id
  /\ \E i \in BoxIndices : /\ CurrentBoxes[i].id = selectedId
                            /\ CurrentBoxes[i] # grab.box

\* the normalized rectangle spanned by the canvas points p and q
Spanned(p, q, f) ==
  ToNormalized([x |-> RMin(p.x, q.x), y |-> RMin(p.y, q.y),
                width |-> RAbs(RSub(p.x, q.x)),
                height |-> RAbs(RSub(p.y, q.y))], f)

\* C24: throughout a resize gesture the corner diagonally opposite the
\* grabbed handle stays fixed: after every pointer-move sample, also after
\* the pointer has crossed the opposite corner, the box is the rectangle
\* spanned by the pointer position and the position the opposite corner had
\* at pointer-down.
C24_OppositeCornerFixed ==
  (/\ mode = "resizing"
   /\ last.op = "move"
   /\ last.changed
   /\ grab.box # NoBox
   /\ grab.box.id = selectedId) =>
    \A i \in SelectedBoxes :
      LET opposite == Corner(grab.box, imageDrawData, 3 - resizingCorner)
          want == Spanned(last.pos, opposite, imageDrawData)
      IN  /\ CurrentBoxes[i].x = want.x
          /\ CurrentBoxes[i].y = want.y
          /\ CurrentBoxes[i].width = want.width
          /\ CurrentBoxes[i].height = want.height

\* C25: in every reachable state the selected id is none or the id of a box
\* of the current image's list, after any sequence of pointer gestures,
\* deletes, file switches and completed loads: a selection made on one image
\* never designates a box of another image.
C25_SelectionInCurrentList ==
  selectedId = Null \/ \E i \in BoxIndices : CurrentBoxes[i].id = selectedId

\* C26: the unsaved-changes flag is false only when the box list of the
\* current image equals the list sent by the last completed save, or the
\* list loaded from the server: an edit made while a save is in flight
\* leaves the flag set once that save has completed.
C26_FlagFalseOnlyWhenSaved ==
  (/\ ~hasUnsavedChanges
   /\ save.stage = "idle"
   /\ currentIndex \notin fetching) =>
    Unidentified(CurrentBoxes) = Unidentified(server[currentIndex])

\* C27: when the loads of files complete in any order after the user has
\* switched files, then once all loads have finished the image displayed and
\* the file data are those of the current file; the boxes loaded for a file
\* are stored only under that file's index; and a box drawn at any time is
\* stored in the list of the image that is displayed.
C27_LoadsSettleOnCurrentFile ==
  /\ []((fetching = {} /\ decoding = {}) =>
         /\ fileData.file = currentIndex
         /\ image # NoImage
         /\ image.src = Files[currentIndex])
  /\ [][\A i \in fetching \ fetching' :
          \A k \in 1..Len(Files) :
            k # i => annotations'[k] = annotations[k]]_vars
  /\ [][(events' = events + 1 /\ last'.op = "up" /\ last'.changed) =>
          image.src = Files[currentIndex]]_vars

\* C28: after any number of save invocations for a file have all completed,
\* overlapping ones started by the save-and-next key included, the server
\* holds exactly one annotation per box of the snapshot saved last: no
\* annotation stored before survives and no box is stored twice.
C28_ServerHoldsLastSnapshot ==
  (save.stage = "idle" /\ save2.stage = "idle") =>
    \A k \in 1..Len(Files) :
      Unidentified(server[k]) = Unidentified(lastSent[k])

\* C29: a pointer-move in Moving or Resizing changes only the geometry of
\* the selected box: its id and label, every other box and the order of the
\* list are unchanged, and a move never changes width or height; a
\* pointer-move in Idle or Drawing, or with no box selected, changes nothing
\* and does not invoke the change callback.
C29_PointerMoveFrame ==
  [][(events' = events + 1 /\ last'.op = "move") =>
       /\ Len(CurrentBoxes') = Len(CurrentBoxes)
       /\ \A i \in BoxIndices :
            /\ CurrentBoxes'[i].id = CurrentBoxes[i].id
            /\ CurrentBoxes'[i].label = CurrentBoxes[i].label
            /\ CurrentBoxes[i].id # selectedId =>
                 CurrentBoxes'[i] = CurrentBoxes[i]
            /\ mode = "moving" =>
                 /\ CurrentBoxes'[i].width = CurrentBoxes[i].width
                 /\ CurrentBoxes'[i].height = CurrentBoxes[i].height
       /\ \A k \in 1..Len(Files) :
            k # currentIndex => annotations'[k] = annotations[k]
       /\ selectedId' = selectedId
       /\ mode' = mode
       /\ (mode \in {"none", "drawing"} \/ selectedId = Null) =>
            /\ annotations' = annotations
            /\ ~last'.changed
            /\ hasUnsavedChanges' = hasUnsavedChanges]_vars

\* a move sample has displaced the selected box of a list of two, and the
\* other box is where it was
C29_Witness ==
  /\ last.op = "move"
  /\ last.mode = "moving"
  /\ last.changed
  /\ Len(CurrentBoxes) = 2
  /\ grab.box # NoBox
  /\ \E i \in BoxIndices :
       /\ CurrentBoxes[i].id = grab.box.id
       /\ CurrentBoxes[i].x # grab.box.x
       /\ CurrentBoxes[i].width = grab.box.width
  /\ \E i \in BoxIndices : CurrentBoxes[i].id # grab.box.id

\* C30: delete with a box selected removes exactly that box from the list of
\* the current image, keeps the remaining boxes in their order with their
\* fields, clears the selection and leaves the lists of all other images
\* unchanged; delete with nothing selected changes nothing.
C30_DeleteRemovesSelectedOnly ==
  [][(events' = events + 1 /\ last'.op \in {"delete", "delete-none"}) =>
       /\ selectedId' = Null
       /\ currentIndex' = currentIndex
       /\ \A k \in 1..Len(Files) :
            k # currentIndex => annotations'[k] = annotations[k]
       /\ selectedId = Null =>
            /\ annotations' = annotations
            /\ hasUnsavedChanges' = hasUnsavedChanges
       /\ \A i \in SelectedBoxes :
            CurrentBoxes' = SubSeq(CurrentBoxes, 1, i - 1)
                              \o SubSeq(CurrentBoxes, i + 1, Len(CurrentBoxes))]_vars

\* the box grabbed last has been deleted from a list that holds another box
C30_Witness ==
  /\ last.op = "delete"
  /\ selectedId = Null
  /\ grab.box # NoBox
  /\ grab.file = currentIndex
  /\ Len(CurrentBoxes) >= 1
  /\ \A i \in BoxIndices : CurrentBoxes[i].id # grab.box.id

====
